---- MODULE Spec2Model ----
(***************************************************************************)
(* Band-structure analyzer of perturbopy (postproc/calc_modes).            *)
(*                                                                         *)
(* BandsCalcMode is modelled as an object built once from the mapping      *)
(* pert_dict and then queried by compute_indirect_bandgap,                 *)
(* compute_direct_bandgap and compute_effective_mass.  Every call is one   *)
(* action; its outcome (the value returned, or the exception raised with   *)
(* the source line that raises it) is recorded in `res`.                   *)
(*                                                                         *)
(* Conventions: numpy indices are 0-based, sequences here are 1-based, so  *)
(* numpy index i is position i + 1.  Energies and coordinates are small    *)
(* integers; comparisons, minima, maxima and first-occurrence scans are    *)
(* computed as numpy computes them.                                        *)
(*                                                                         *)
(* The test driver (test_utils/run_test/test_driver.py) is a second state  *)
(* machine over the working directory of the process and the entries of   *)
(* the work directory: one action per runner that run_ephr_calculation     *)
(* calls, and one for run_perturbo.                                        *)
(***************************************************************************)
EXTENDS Integers, Sequences, FiniteSets, TLC

\* ------------------------------------------------------------------ bounds
\* number of k-points of a data set
NumKpts == 3
\* number of bands of a data set (band indices 1..NumBands)
NumBands == 2
\* band energies are drawn from 0..MaxEnergy
MaxEnergy == 1

VARIABLES
    inp,    \* the mapping pert_dict handed to the constructor (mutated by pop)
    self,   \* the BandsCalcMode object, or NoObject before/without construction
    res,    \* the last call: [op, args, out]
    getcwd, \* os.getcwd(): the working directory of the test process
    fs,     \* the entries of the work directory the stage runners create
    drv,    \* the test driver's frame: function, position, cwd, input_yaml
    log     \* the stages run so far, with the commands each one ran

vars == <<inp, self, res, getcwd, fs, drv, log>>

\* the variables of the test driver (test_utils/run_test/test_driver.py)
driverVars == <<getcwd, fs, drv, log>>

\* ------------------------------------------------------------- outcomes
NoObject == [none |-> TRUE]

Return(v) == [kind |-> "return", exc |-> "", line |-> 0, msg |-> "", value |-> v]
Raise(e, l, m) == [kind |-> "raise", exc |-> e, line |-> l, msg |-> m, value |-> <<>>]

\* a call: the method, its arguments as passed, its outcome and the effects it
\* had outside the object (databases created, files opened, figures shown)
Call(op, args, out, events) == [op |-> op, args |-> args, out |-> out, events |-> events]

NoCall == Call("none", <<>>, Return(<<>>), <<>>)

\* the directory the test process is started in, and the test driver before
\* any of its functions is called
CallerDir == "tests/"
NoDriver == [op |-> "none"]
DriverAtRest ==
    /\ getcwd = CallerDir
    /\ fs = {}
    /\ drv = NoDriver
    /\ log = <<>>

\* ------------------------------------------------------------ numpy helpers
Range(s) == {s[i] : i \in DOMAIN s}

\* np.argmax: index of the first occurrence of the maximum (scan keeps the
\* earlier index on ties because the comparison is strict)
RECURSIVE ArgmaxScan(_, _, _)
ArgmaxScan(a, i, best) ==
    IF i > Len(a) THEN best
    ELSE ArgmaxScan(a, i + 1, IF a[i] > a[best] THEN i ELSE best)

\* a scan that keeps the LAST maximal index (the comparison is not strict)
RECURSIVE ArgmaxScanLast(_, _, _)
ArgmaxScanLast(a, i, best) ==
    IF i > Len(a) THEN best
    ELSE ArgmaxScanLast(a, i + 1, IF a[i] >= a[best] THEN i ELSE best)

NpArgmaxLast(a) == ArgmaxScanLast(a, 2, 1)

NpArgmax(a) == ArgmaxScan(a, 2, 1)

RECURSIVE ArgminScan(_, _, _)
ArgminScan(a, i, best) ==
    IF i > Len(a) THEN best
    ELSE ArgminScan(a, i + 1, IF a[i] < a[best] THEN i ELSE best)

NpArgmin(a) == ArgminScan(a, 2, 1)

RECURSIVE MaxScan(_, _, _)
MaxScan(a, i, m) ==
    IF i > Len(a) THEN m ELSE MaxScan(a, i + 1, IF a[i] > m THEN a[i] ELSE m)

NpMax(a) == MaxScan(a, 2, a[1])

RECURSIVE MinScan(_, _, _)
MinScan(a, i, m) ==
    IF i > Len(a) THEN m ELSE MinScan(a, i + 1, IF a[i] < m THEN a[i] ELSE m)

NpMin(a) == MinScan(a, 2, a[1])

\* dict.pop(key): the mapping without the key
Pop(d, k) == [x \in (DOMAIN d) \ {k} |-> d[x]]

\* ------------------------------------------------------------- input data
\* the entries of pert_dict['bands'] the constructor removes, in pop order
BandsKeys ==
    << "k-path coordinate units", "k-path coordinates",
       "k-point coordinate units", "k-point coordinates",
       "band index", "number of bands", "band units" >>

BandsSection(kpath, kpoint, energies_dict, num_bands) ==
    ("k-path coordinate units" :> "arbitrary") @@
    ("k-path coordinates" :> kpath) @@
    ("k-point coordinate units" :> "crystal") @@
    ("k-point coordinates" :> kpoint) @@
    ("band index" :> energies_dict) @@
    ("number of bands" :> num_bands) @@
    ("band units" :> "eV")

\* pert_dict as the constructors read it: the calculation mode, the lattice
\* parameter with its unit, and the 'bands' section
PertDict(mode, alat, bandsSection) ==
    [calc_mode |-> mode, alat |-> alat, alat_units |-> "angstrom",
     bands |-> bandsSection]

\* the calculation modes a mapping may carry
CtorModes == {"bands", "dynamics-run"}

\* a straight k-path: point i is (i-1, 0, 0), path coordinate i-1
LinePoints == [i \in 1..NumKpts |-> <<i - 1, 0, 0>>]
LinePath == [i \in 1..NumKpts |-> i - 1]

EnergySeqs == [1..NumKpts -> 0..MaxEnergy]

\* ----------------------------------------------------------- construction
\* Attributes every analyzer has: the two BandsCalcMode.__init__ assigns and
\* the ones the data model gives the base class CalcMode.
CoreAttrs == {"_pert_dict", "calc_mode", "alat", "alat_units", "lat",
              "recip_lat", "kpt", "bands"}

\* Attribute names the methods read on self that BandsCalcMode.__init__ never
\* assigns.  Whether CalcMode.__init__ assigns them is left open: each
\* construction picks a subset.
OpenAttrs == {"band_indices", "energy_units"}

\* RecipPtDB.from_lattice(kpoint, kpoint_units, lat, recip_lat, kpath,
\* kpath_units): the point database built from the supplied arrays; its path
\* is the kpath argument of line 50
RecipPtDB(kpoint, kpoint_units, kpath, kpath_units) ==
    [points |-> kpoint, path |-> kpath, labels |-> <<>>, units |-> kpoint_units]

\* EnergyDB(energies_dict, energy_units): it is handed the per-band mapping and
\* the unit, nothing else; the only shape it can check is that the sequences
\* it receives have one common length
EnergyDBRagged(energies_dict) ==
    \E a, b \in DOMAIN energies_dict : Len(energies_dict[a]) # Len(energies_dict[b])

EnergyDB(energies_dict, energy_units) ==
    [energies |-> energies_dict,
     indices |-> [i \in 1..Cardinality(DOMAIN energies_dict) |-> i],
     units |-> energy_units]

\* CalcMode.__init__(pert_dict): keeps the mapping and reads the mode and the
\* lattice data from it; `extra` are the open attributes this base defines
CalcModeInit(pd, extra) ==
    [calc_mode |-> pd.calc_mode, alat |-> pd.alat, alat_units |-> pd.alat_units,
     attrs |-> (CoreAttrs \ {"kpt", "bands"}) \cup extra]

\* the seven pops of lines 41-48
RECURSIVE PopKeys(_, _, _)
PopKeys(d, keys, i) ==
    IF i > Len(keys) THEN d ELSE PopKeys(Pop(d, keys[i]), keys, i + 1)

ModeError ==
    Raise("ValueError", 39, "Calculation mode for a BandsCalcMode object should be bands")

\* lines 41-51: the seven pops, then the two databases.  [out, pd, obj, events]
\* = the outcome, the mapping after the pops, the object and the databases
\* whose construction was started
BandsCalcModeBuild(pd, base) ==
    LET b == pd.bands
        kpath_units == b["k-path coordinate units"]
        kpath == b["k-path coordinates"]
        kpoint_units == b["k-point coordinate units"]
        kpoint == b["k-point coordinates"]
        energies_dict == b["band index"]
        num_bands == b["number of bands"]
        energy_units == b["band units"]
        popped == [pd EXCEPT !.bands = PopKeys(b, BandsKeys, 1)]
    IN  IF EnergyDBRagged(energies_dict)
        THEN [out |-> Raise("DataIntegrityError", 51, "band sequences differ in length"),
              pd |-> popped, obj |-> NoObject, events |-> <<"RecipPtDB", "EnergyDB">>]
        ELSE [out |-> Return(<<>>),
              pd |-> popped,
              obj |-> [calc_mode |-> base.calc_mode,
                       alat |-> base.alat, alat_units |-> base.alat_units,
                       attrs |-> base.attrs \cup {"kpt", "bands"},
                       kpt |-> RecipPtDB(kpoint, kpoint_units, kpath, kpath_units),
                       bands |-> EnergyDB(energies_dict, energy_units)],
              events |-> <<"RecipPtDB", "EnergyDB">>]

\* a constructor that pops the entries and builds the databases before it
\* looks at the calculation mode
BandsCalcModeInitCheckLast(pd, extra) ==
    LET base == CalcModeInit(pd, extra)
        r == BandsCalcModeBuild(pd, base)
    IN  IF r.out.kind = "return" /\ base.calc_mode # "bands"
        THEN [r EXCEPT !.out = ModeError, !.obj = NoObject]
        ELSE r

\* BandsCalcMode.__init__(pert_dict): super().__init__, the mode check of
\* lines 38-39, then lines 41-51
BandsCalcModeInit(pd, extra) ==
    LET base == CalcModeInit(pd, extra)
    IN  IF base.calc_mode # "bands"
        THEN [out |-> ModeError, pd |-> pd, obj |-> NoObject, events |-> <<>>]
        ELSE BandsCalcModeBuild(pd, base)

\* analyzer = BandsCalcMode(pert_dict)
Construct ==
    /\ self = NoObject
    /\ res = NoCall
    /\ Range(BandsKeys) \subseteq DOMAIN inp.bands
    /\ \E extra \in SUBSET OpenAttrs :
         LET r == BandsCalcModeInit(inp, extra)
         IN  /\ inp' = r.pd
             /\ self' = r.obj
             /\ res' = Call("__init__", inp, r.out, r.events)
    /\ UNCHANGED driverVars

\* ------------------------------------------------------------- band gaps
HasAttr(obj, name) == name \in obj.attrs

\* self.band_indices, where the base class defines it: the index list of the
\* energy database
BandIndicesAttr(obj) == obj.bands.indices

\* Python list subscript l[n] (n >= 0): element n + 1, IndexError past the end
ListHas(l, n) == n >= 0 /\ n < Len(l)
ListAt(l, n) == l[n + 1]

\* compute_indirect_bandgap(n_lower, n_upper)
ComputeIndirectBandgap(obj, n_lower, n_upper) ==
    IF n_lower \notin Range(obj.bands.indices) \/ n_upper \notin Range(obj.bands.indices)
    THEN Raise("ValueError", 79, "n_lower and n_upper must be valid band numbers.")
    ELSE IF n_lower > n_upper
    THEN Raise("ValueError", 82, "n_lower must be less than or equal to n_upper.")
    ELSE LET gap == NpMin(obj.bands.energies[n_upper]) - NpMax(obj.bands.energies[n_lower])
             lower_kpt == obj.kpt.points[NpArgmax(obj.bands.energies[n_lower])]
             upper_kpt == obj.kpt.points[NpArgmin(obj.bands.energies[n_upper])]
         IN  Return(<<gap, lower_kpt, upper_kpt>>)

\* compute_direct_bandgap(n_lower, n_upper).  Line 115 reads self.band_indices;
\* line 121 subtracts entries of bands.indices (a 0-based list subscript), so
\* `transitions` is one number, np.min of it is that number and np.argmin is 0
ComputeDirectBandgap(obj, n_lower, n_upper) ==
    IF ~HasAttr(obj, "band_indices")
    THEN Raise("AttributeError", 115, "object has no attribute band_indices")
    ELSE IF n_lower \notin Range(BandIndicesAttr(obj)) \/ n_upper \notin Range(BandIndicesAttr(obj))
    THEN Raise("ValueError", 116, "n_lower and n_upper must be valid band numbers")
    ELSE IF n_lower > n_upper
    THEN Raise("ValueError", 119, "n_lower must be less than or equal to n_upper.")
    ELSE IF ~ListHas(obj.bands.indices, n_upper) \/ ~ListHas(obj.bands.indices, n_lower)
    THEN Raise("IndexError", 121, "list index out of range")
    ELSE LET transitions == ListAt(obj.bands.indices, n_upper) - ListAt(obj.bands.indices, n_lower)
             gap == transitions
             kpoint == obj.kpt.points[1]
         IN  Return(<<gap, kpoint>>)

\* band numbers a caller may pass: the valid ones and one on either side
BandArgs == 0..(NumBands + 1)

\* the caller takes the outcome of the last call and goes on
CallerContinues ==
    /\ res # NoCall
    /\ res' = NoCall
    /\ UNCHANGED <<inp, self>>
    /\ UNCHANGED driverVars

IndirectCall ==
    /\ self # NoObject
    /\ res = NoCall
    /\ \E nl, nu \in BandArgs :
         res' = Call("compute_indirect_bandgap", <<nl, nu>>,
                     ComputeIndirectBandgap(self, nl, nu), <<>>)
    /\ UNCHANGED <<inp, self>>
    /\ UNCHANGED driverVars

DirectCall ==
    /\ self # NoObject
    /\ res = NoCall
    /\ \E nl, nu \in BandArgs :
         res' = Call("compute_direct_bandgap", <<nl, nu>>,
                     ComputeDirectBandgap(self, nl, nu), <<>>)
    /\ UNCHANGED <<inp, self>>
    /\ UNCHANGED driverVars

\* --------------------------------------------------------- effective mass
\* epsilon = 1e-2 of line 151, as 1 / EpsilonInv
EpsilonInv == 100

Dot(p, q) == p[1] * q[1] + p[2] * q[2] + p[3] * q[3]
NormSq(p) == Dot(p, p)
DistSq(p, q) == (p[1] - q[1]) * (p[1] - q[1]) + (p[2] - q[2]) * (p[2] - q[2])
                + (p[3] - q[3]) * (p[3] - q[3])

\* np.linalg.norm(points - kpoint) < max_distance, on the squares (a norm is
\* >= 0, so nothing is below a max_distance <= 0)
WithinDistance(p, kpoint, max_distance) ==
    max_distance > 0 /\ DistSq(p, kpoint) < max_distance * max_distance

\* line 160: dot(kpoint, p) / (|kpoint| |p|) - 1 < epsilon.  A zero vector on
\* either side makes the quotient 0/0 = nan, and nan < epsilon is False.
\* Otherwise c - 1 < 1/E  <=>  E * dot < (E + 1) |kpoint| |p|, which holds when
\* dot <= 0 and is compared on the squares when dot > 0.
KpointParallel(kpoint, p) ==
    IF NormSq(kpoint) = 0 \/ NormSq(p) = 0 THEN FALSE
    ELSE IF Dot(kpoint, p) <= 0 THEN TRUE
    ELSE EpsilonInv * EpsilonInv * Dot(kpoint, p) * Dot(kpoint, p)
           < (EpsilonInv + 1) * (EpsilonInv + 1) * NormSq(kpoint) * NormSq(p)

\* line 162: np.where(logical_and(distances < max_distance, parallel))
KpointIndices(obj, kpoint, max_distance) ==
    {i \in 1..Len(obj.kpt.points) :
        WithinDistance(obj.kpt.points[i], kpoint, max_distance)
        /\ KpointParallel(kpoint, obj.kpt.points[i])}

\* self.kpt.where(kpoint): the positions of the stored points equal to kpoint
KptWhere(obj, kpoint) == {i \in 1..Len(obj.kpt.points) : obj.kpt.points[i] = kpoint}

RECURSIVE SumOver(_, _)
SumOver(S, f) ==
    IF S = {} THEN 0 ELSE LET x == CHOOSE y \in S : TRUE IN f[x] + SumOver(S \ {x}, f)

\* a rational number num / den
Ratio(num, den) == [num |-> num, den |-> den]
RatioTimes(n, r) == Ratio(n * r.num, r.den)
RatioEqual(r, s) == r.num * s.den = s.num * r.den

\* energy_conversion_factor(from, 'hartree') and length_conversion_factor(from,
\* 'bohr'): the number a value in `from` is multiplied by.  1 hartree is
\* 27.2114 eV and 1 angstrom is 1.8897 bohr.
EvToHartree == Ratio(10000, 272114)
AngstromToBohr == Ratio(18897, 10000)
EnergyConversionFactor(from, to) ==
    IF from = to THEN Ratio(1, 1)
    ELSE IF from = "eV" /\ to = "hartree" THEN EvToHartree
    ELSE Ratio(EvToHartree.den, EvToHartree.num)
LengthConversionFactor(from, to) ==
    IF from = to THEN Ratio(1, 1)
    ELSE IF from = "angstrom" /\ to = "bohr" THEN AngstromToBohr
    ELSE Ratio(AngstromToBohr.den, AngstromToBohr.num)

\* number of fit parameters curve_fit reads off parabolic_approx(prefactor,
\* kpoint_dist_squared, energy): every argument after the first
FitParameters == 2

\* curve_fit(parabolic_approx, kpoint_distances_squared, energies) and line
\* 173.  The model function is linear in its first fitted parameter a and does
\* not depend on the second, so least squares gives
\*     a = sum x (y - E_0) / sum x^2
\* with x = d^2 (2 pi / self.alat)^2 and y = energy * factor(units, hartree).
\* The mass 1 / (2 a) is kept exact as the two integer sums together with the
\* two numbers that scale them:
\*     mass = (2 pi / alat)^2 * d4 / (2 * energy_factor * de)
\* energy_factor is the factor of line 155 (self.energy_units, where the base
\* class defines it, is taken to be the unit line 51 gives the energy
\* database).  alat is the number line 166 divides 2 pi by: self.alat as
\* stored; the product with the length factor of line 156 is bound to a local
\* name that no later line reads.
\* curve_fit raises ValueError on no sample and TypeError on fewer samples than
\* parameters; with sum x^2 = 0 the parameter stays at its initial guess 1.
CurveFitMass(obj, n, E_0_index, indices) ==
    LET e == obj.bands.energies[n]
        d2 == [i \in indices |-> DistSq(obj.kpt.points[i], obj.kpt.points[E_0_index])]
        d4 == SumOver(indices, [i \in indices |-> d2[i] * d2[i]])
        de == SumOver(indices, [i \in indices |-> d2[i] * (e[i] - e[E_0_index])])
    IN  IF indices = {}
        THEN Raise("ValueError", 171, "ydata must not be empty")
        ELSE IF Cardinality(indices) < FitParameters
        THEN Raise("TypeError", 171, "Improper input: N must not exceed M")
        ELSE Return([d4 |-> d4, de |-> de, initial_guess |-> (d4 = 0),
                     energy_factor |-> EnergyConversionFactor(obj.bands.units, "hartree"),
                     alat |-> Ratio(obj.alat, 1)])

\* lines 151-173 of compute_effective_mass: everything before the plot
EffectiveMassFit(obj, n, kpoint, max_distance) ==
    IF n \notin DOMAIN obj.bands.energies
    THEN Raise("KeyError", 155, "band index")
    ELSE IF ~HasAttr(obj, "energy_units")
    THEN Raise("AttributeError", 155, "object has no attribute energy_units")
    ELSE IF KptWhere(obj, kpoint) = {}
    THEN Raise("LookupError", 157, "k-point not found")
    ELSE CurveFitMass(obj, n, CHOOSE i \in KptWhere(obj, kpoint) :
                                  \A j \in KptWhere(obj, kpoint) : i <= j,
                      KpointIndices(obj, kpoint, max_distance))

\* the show_plot argument: a bool, a callable returning a bool, or omitted
\* (the default of line 127 is True)
Bool(b) == [type |-> "bool", val |-> b]
Callable(b) == [type |-> "function", val |-> b]
Omitted == [type |-> "omitted", val |-> TRUE]
ShowPlotArgs == {Bool(TRUE), Bool(FALSE), Omitted, Callable(TRUE), Callable(FALSE)}

\* compute_effective_mass(n, kpoint, max_distance, show_plot): [out, events].
\* Line 175 CALLS show_plot: a bool is not callable.
ComputeEffectiveMass(obj, n, kpoint, max_distance, show_plot) ==
    LET fit == EffectiveMassFit(obj, n, kpoint, max_distance)
    IN  IF fit.kind = "raise" THEN [out |-> fit, events |-> <<>>]
        ELSE IF show_plot.type # "function"
        THEN [out |-> Raise("TypeError", 175, "'bool' object is not callable"),
              events |-> <<>>]
        ELSE IF show_plot.val
        THEN [out |-> fit, events |-> <<"plt.scatter", "plt.plot", "plt.show">>]
        ELSE [out |-> fit, events |-> <<>>]

\* compute_effective_mass with line 155 written as an in-place product
\* (energies[n] *= factor): the stored band is rescaled by every call
AnalyzerAfterEffectiveMassInPlace(obj, n) ==
    IF n \in DOMAIN obj.bands.energies /\ HasAttr(obj, "energy_units")
    THEN [obj EXCEPT !.bands.energies[n] = [k \in DOMAIN @ |-> 2 * @[k]]]
    ELSE obj

\* the analyzer after compute_effective_mass: line 155 multiplies into a new
\* array, lines 153, 163 rebind local names, nothing is assigned on self
AnalyzerAfterEffectiveMass(obj, n) == obj

\* centre points a caller may pass: the origin, two points on the x axis, one
\* on the y axis
CentreArgs == {<<0, 0, 0>>, <<1, 0, 0>>, <<2, 0, 0>>, <<0, 1, 0>>}
\* max_distance is drawn from 0..MaxDistance
MaxDistance == 2

EffectiveMassCall ==
    /\ self # NoObject
    /\ res = NoCall
    /\ \E n \in BandArgs, kpoint \in CentreArgs, max_distance \in 0..MaxDistance,
          show_plot \in ShowPlotArgs :
         LET r == ComputeEffectiveMass(self, n, kpoint, max_distance, show_plot)
         IN  /\ res' = Call("compute_effective_mass",
                            [n |-> n, kpoint |-> kpoint, max_distance |-> max_distance,
                             show_plot |-> show_plot],
                            r.out, r.events)
             /\ self' = AnalyzerAfterEffectiveMass(self, n)
    /\ UNCHANGED inp
    /\ UNCHANGED driverVars

\* ------------------------------------------------- dynamics-run loader
\* dynamics_run_calc_mode.py, line 18: the tokens between the parentheses of
\* `def __init__(self, cdyna_file, tet_file pert_dict):`
DynamicsInitParameterTokens ==
    <<"self", ",", "cdyna_file", ",", "tet_file", "pert_dict">>

\* a parameter list is names separated by single commas
IsParameterList(toks) ==
    /\ Len(toks) % 2 = 1
    /\ \A i \in 1..Len(toks) : (toks[i] = ",") <=> (i % 2 = 0)

\* Python compiles a source file as a whole: the class, and with it
\* from_hdf5_yaml, exists only if every statement of the file parses
DynamicsModuleCompiles == IsParameterList(DynamicsInitParameterTokens)

DynamicsFiles == {"yaml_path", "cdyna_path", "tet_path"}

\* DynamicsRunCalcMode.__init__(cdyna_file, tet_file, pert_dict), lines 23-53
DynamicsRunCalcModeInit(yaml_mode, num_runs) ==
    IF yaml_mode # "dynamics-run"
    THEN Raise("ValueError", 26,
               "Calculation mode for a DynamicsRunCalcMode object should be dynamics-run")
    ELSE Return([time_units |-> "fs", runs |-> 1..num_runs])

\* DynamicsRunCalcMode.from_hdf5_yaml(cdyna_path, tet_path, yaml_path) called
\* with the files in `present` on disk: [out, events], events = the opens
DynamicsFromHdf5Yaml(present, yaml_mode, num_runs) ==
    IF ~DynamicsModuleCompiles
    THEN [out |-> Raise("SyntaxError", 18, "invalid syntax"), events |-> <<>>]
    ELSE IF "yaml_path" \notin present
    THEN [out |-> Raise("FileNotFoundError", 77, "yaml_path"), events |-> <<>>]
    ELSE IF "cdyna_path" \notin present
    THEN [out |-> Raise("FileNotFoundError", 79, "cdyna_path"), events |-> <<>>]
    ELSE IF "tet_path" \notin present
    THEN [out |-> Raise("FileNotFoundError", 81, "tet_path"), events |-> <<>>]
    ELSE [out |-> DynamicsRunCalcModeInit(yaml_mode, num_runs),
          events |-> <<"open_yaml yaml_path", "open_hdf5 cdyna_path", "open_hdf5 tet_path">>]

\* a caller imports the module and calls from_hdf5_yaml; the files on disk,
\* the mode recorded in the YAML file and the number of runs are its inputs
DynamicsLoadCall ==
    /\ res = NoCall
    /\ \E present \in SUBSET DynamicsFiles, yaml_mode \in CtorModes, num_runs \in 0..1 :
         LET r == DynamicsFromHdf5Yaml(present, yaml_mode, num_runs)
         IN  res' = Call("from_hdf5_yaml",
                         [present |-> present, yaml_mode |-> yaml_mode, num_runs |-> num_runs],
                         r.out, r.events)
    /\ UNCHANGED <<inp, self>>
    /\ UNCHANGED driverVars

\* ------------------------------------------------ band-gap specification
\* well-formed data on a straight k-path: band 1 and band 2 run over every
\* energy assignment, a band n > 2 is band 2 shifted up by n - 2
GapBands(lo, up) ==
    [n \in 1..NumBands |->
        IF n = 1 THEN lo ELSE [k \in 1..NumKpts |-> up[k] + (n - 2)]]

InitGap ==
    /\ \E lo, up \in EnergySeqs :
         inp = PertDict("bands", 1,
                        BandsSection(LinePath, LinePoints, GapBands(lo, up), NumBands))
    /\ self = NoObject
    /\ res = NoCall
    /\ DriverAtRest

NextGap == Construct \/ IndirectCall \/ DirectCall \/ CallerContinues

SpecGap == InitGap /\ [][NextGap]_vars

\* ------------------------------------------------------ band-gap claims
ValidBands(obj) == DOMAIN obj.bands.energies

GapCallOnValidPair(name) ==
    /\ self # NoObject
    /\ res.op = name
    /\ res.args[1] \in ValidBands(self)
    /\ res.args[2] \in ValidBands(self)
    /\ res.args[1] <= res.args[2]

\* i is the first position where sequence a attains its maximum / minimum
FirstMaxAt(a, i) ==
    /\ \A k \in 1..Len(a) : a[k] <= a[i]
    /\ \A k \in 1..(i - 1) : a[k] < a[i]

FirstMinAt(a, i) ==
    /\ \A k \in 1..Len(a) : a[k] >= a[i]
    /\ \A k \in 1..(i - 1) : a[k] > a[i]

\* C1: for valid n_lower <= n_upper, compute_indirect_bandgap returns
\* gap = min_k energies[n_upper][k] - max_k energies[n_lower][k], lower_kpt =
\* the stored point at the first index where energies[n_lower] is maximal and
\* upper_kpt = the stored point at the first index where energies[n_upper] is
\* minimal.
C1_IndirectGapMinMinusMax ==
    GapCallOnValidPair("compute_indirect_bandgap") =>
        LET lo == self.bands.energies[res.args[1]]
            up == self.bands.energies[res.args[2]]
        IN  /\ res.out.kind = "return"
            /\ \E i, j \in 1..Len(self.kpt.points) :
                 /\ FirstMaxAt(lo, i)
                 /\ FirstMinAt(up, j)
                 /\ res.out.value = <<up[j] - lo[i], self.kpt.points[i], self.kpt.points[j]>>

\* C1 witness: a returned indirect gap between two different bands where the
\* lower band's maximum and the upper band's minimum are each attained at two
\* k-points, so that the first-occurrence rule decides both points
C1_Witness ==
    /\ GapCallOnValidPair("compute_indirect_bandgap")
    /\ res.args[1] < res.args[2]
    /\ res.out.kind = "return"
    /\ LET lo == self.bands.energies[res.args[1]]
           up == self.bands.energies[res.args[2]]
       IN  /\ \E i, k \in 1..Len(lo) : i < k /\ FirstMaxAt(lo, i) /\ lo[k] = lo[i]
           /\ \E j, k \in 1..Len(up) : j < k /\ FirstMinAt(up, j) /\ up[k] = up[j]
           /\ res.out.value[2] # res.out.value[3]

\* C2: for valid n_lower <= n_upper, compute_direct_bandgap returns
\* gap = min_k (energies[n_upper][k] - energies[n_lower][k]) with the stored
\* point at the first minimising index, and the index set it validates against
\* is the energy database's, as in compute_indirect_bandgap.
C2_DirectGapMinTransition ==
    /\ GapCallOnValidPair("compute_direct_bandgap") =>
         LET lo == self.bands.energies[res.args[1]]
             up == self.bands.energies[res.args[2]]
             transitions == [k \in 1..Len(lo) |-> up[k] - lo[k]]
         IN  /\ res.out.kind = "return"
             /\ \E k \in 1..Len(self.kpt.points) :
                  /\ FirstMinAt(transitions, k)
                  /\ res.out.value = <<transitions[k], self.kpt.points[k]>>
    /\ (self # NoObject /\ res.op = "compute_direct_bandgap") =>
         ((res.out.kind = "raise" /\ res.out.line = 116)
            <=> (ComputeIndirectBandgap(self, res.args[1], res.args[2]).line = 79))

\* C3: for valid n_lower <= n_upper the direct gap is a returned value that is
\* >= the indirect gap, and equal to it when one k-point hosts both the lower
\* band's maximum and the upper band's minimum.
C3_DirectGapAtLeastIndirect ==
    GapCallOnValidPair("compute_direct_bandgap") =>
        LET lo == self.bands.energies[res.args[1]]
            up == self.bands.energies[res.args[2]]
            indirect == ComputeIndirectBandgap(self, res.args[1], res.args[2])
        IN  /\ res.out.kind = "return"
            /\ res.out.value[1] >= indirect.value[1]
            /\ (\E k \in 1..Len(lo) :
                    (\A m \in 1..Len(lo) : lo[m] <= lo[k] /\ up[m] >= up[k]))
                 => res.out.value[1] = indirect.value[1]

\* C4: both gap methods return only for two valid indices with
\* n_lower <= n_upper; every other call raises ValueError, the invalid-index
\* one when an index is invalid (whatever the order) and the ordering one when
\* both are valid and n_lower > n_upper.
C4_GapArgumentErrors ==
    (self # NoObject /\ res.op \in {"compute_indirect_bandgap", "compute_direct_bandgap"}) =>
        LET valid == res.args[1] \in ValidBands(self) /\ res.args[2] \in ValidBands(self)
            ordered == res.args[1] <= res.args[2]
        IN  /\ res.out.kind = "return" => (valid /\ ordered)
            /\ ~valid => (res.out.exc = "ValueError" /\ res.out.line \in {79, 116})
            /\ (valid /\ ~ordered) => (res.out.exc = "ValueError" /\ res.out.line \in {82, 119})

\* --------------------------------------------- construction specification
\* inputs of either calculation mode whose declared band count and per-band
\* sequence lengths may or may not agree with the data: NumBands bands are
\* supplied, each a constant sequence one shorter than, or as long as, the
\* k-point list
CtorDeclared == {NumBands - 1, NumBands, NumBands + 1}
CtorLengths == {NumKpts - 1, NumKpts}
CtorEnergyDicts ==
    {[n \in 1..NumBands |-> [k \in 1..len[n] |-> val[n]]] :
        len \in [1..NumBands -> CtorLengths], val \in [1..NumBands -> 0..MaxEnergy]}

\* 'k-path coordinates' a mapping may carry for the straight k-point list: the
\* cumulative distance along it, the same reversed, and one of twice the
\* spacing
CtorPaths ==
    { LinePath,
      [i \in 1..NumKpts |-> NumKpts - i],
      [i \in 1..NumKpts |-> 2 * (i - 1)] }

InitCtor ==
    /\ \E mode \in CtorModes, declared \in CtorDeclared, e \in CtorEnergyDicts,
          kpath \in CtorPaths :
         inp = PertDict(mode, 1, BandsSection(kpath, LinePoints, e, declared))
    /\ self = NoObject
    /\ res = NoCall
    /\ DriverAtRest

\* a failed or finished construction is followed by no further step
NextCtor == Construct

SpecCtor == InitCtor /\ [][NextCtor]_vars

\* C5: constructing from data whose mode is not 'bands' raises ValueError
\* with every 'bands' entry still in the mapping, no database created and no
\* analyzer returned.
C5_ModeMismatchLeavesInputIntact ==
    (res.op = "__init__" /\ res.args.calc_mode # "bands") =>
        /\ res.out.kind = "raise" /\ res.out.exc = "ValueError"
        /\ inp = res.args
        /\ Range(BandsKeys) \subseteq DOMAIN inp.bands
        /\ res.events = <<>>
        /\ self = NoObject

\* C5 witness: a construction from 'dynamics-run' data has been attempted and
\* has raised
C5_Witness ==
    /\ res.op = "__init__"
    /\ res.args.calc_mode = "dynamics-run"
    /\ res.out.kind = "raise"

\* C9: if the number of supplied bands differs from the declared 'number of
\* bands', or some band's energy sequence is not as long as the k-point list,
\* construction raises a data-integrity error and returns no analyzer.
C9_ShapeMismatchFailsConstruction ==
    (res.op = "__init__" /\ res.args.calc_mode = "bands") =>
        LET b == res.args.bands
            supplied == b["band index"]
            mismatch ==
                \/ Cardinality(DOMAIN supplied) # b["number of bands"]
                \/ \E n \in DOMAIN supplied :
                      Len(supplied[n]) # Len(b["k-point coordinates"])
        IN  mismatch => (res.out.kind = "raise" /\ self = NoObject)

\* Euclidean distance between two points whose squared distance is a perfect
\* square (points on one axis), and the cumulative distance along a point list
EuclideanDistance(p, q) == CHOOSE r \in 0..DistSq(p, q) : r * r = DistSq(p, q)

RECURSIVE CumulativeDistance(_, _)
CumulativeDistance(points, i) ==
    IF i <= 1 THEN 0
    ELSE CumulativeDistance(points, i - 1) + EuclideanDistance(points[i - 1], points[i])

KpointLists ==
    { LinePoints,
      [i \in 1..NumKpts |-> <<i, 0, 0>>],
      [i \in 1..NumKpts |-> IF i = 1 THEN <<0, 1, 0>> ELSE <<i - 1, 0, 0>>],
      [i \in 1..NumKpts |-> IF i = 1 THEN <<1, 0, 0>> ELSE <<i - 1, 0, 0>>] }

\* band n is the sequence e shifted up by n - 1
ShiftedBands(e) == [n \in 1..NumBands |-> [k \in 1..NumKpts |-> e[k] + (n - 1)]]

Init ==
    /\ \E pts \in KpointLists, e \in EnergySeqs :
         inp = PertDict("bands", 2, BandsSection(LinePath, pts, ShiftedBands(e), NumBands))
    /\ self = NoObject
    /\ res = NoCall
    /\ DriverAtRest

Next ==
    \/ Construct
    \/ IndirectCall
    \/ DirectCall
    \/ EffectiveMassCall
    \/ DynamicsLoadCall
    \/ CallerContinues

Spec == Init /\ [][Next]_vars

\* C6: with any of the three files absent, from_hdf5_yaml raises a not-found
\* error, having opened no file and constructed no DynamicsRunCalcMode.
C6_MissingFileNotFoundBeforeOpen ==
    (res.op = "from_hdf5_yaml" /\ res.args.present # DynamicsFiles) =>
        /\ res.out.kind = "raise"
        /\ res.out.exc = "FileNotFoundError"
        /\ res.events = <<>>

EffectiveMassCallMade ==
    /\ self # NoObject
    /\ res.op = "compute_effective_mass"

\* C7: compute_effective_mass on a valid band and a stored centre point whose
\* selected neighbourhood has fewer than 2 k-points fails in the fit (an
\* error raised by the fitting step) and returns no effective mass.
C7_SmallNeighbourhoodFitError ==
    ( /\ EffectiveMassCallMade
      /\ res.args.n \in ValidBands(self)
      /\ KptWhere(self, res.args.kpoint) # {}
      /\ Cardinality(KpointIndices(self, res.args.kpoint, res.args.max_distance)) < 2 )
    => (res.out.kind = "raise" /\ res.out.line = 171)

\* C8: show_plot is a boolean that affects rendering only: whenever the
\* computation of the mass (band, centre, max_distance) succeeds, the call
\* returns that mass for show_plot = True, False and omitted alike.
C8_ShowPlotDoesNotAffectResult ==
    ( /\ EffectiveMassCallMade
      /\ res.args.show_plot.type \in {"bool", "omitted"}
      /\ EffectiveMassFit(self, res.args.n, res.args.kpoint, res.args.max_distance).kind
           = "return" )
    => res.out = EffectiveMassFit(self, res.args.n, res.args.kpoint, res.args.max_distance)

\* p points along the direction of kpoint from the origin: both are non-zero
\* and the normalised dot product c satisfies |c - 1| < 1 / EpsilonInv, that
\* is c > 1 - 1/E, compared on the squares (c > 0)
ParallelWithinEpsilon(kpoint, p) ==
    /\ NormSq(kpoint) # 0
    /\ NormSq(p) # 0
    /\ Dot(kpoint, p) > 0
    /\ EpsilonInv * EpsilonInv * Dot(kpoint, p) * Dot(kpoint, p)
         > (EpsilonInv - 1) * (EpsilonInv - 1) * NormSq(kpoint) * NormSq(p)

\* the call just made was a compute_effective_mass that got to the selection
\* of line 162
SelectionMade ==
    /\ EffectiveMassCallMade
    /\ (res.out.kind = "return" \/ res.out.line >= 162)

\* C12: a stored k-point enters the fit neighbourhood if and only if it is
\* closer to the centre than max_distance and parallel to the centre's
\* direction from the origin (normalised dot product within epsilon of 1); a
\* perpendicular or anti-parallel point within max_distance is left out.
C12_NeighbourhoodIsNearAndParallel ==
    SelectionMade =>
        \A i \in 1..Len(self.kpt.points) :
            i \in KpointIndices(self, res.args.kpoint, res.args.max_distance)
            <=> ( /\ DistSq(self.kpt.points[i], res.args.kpoint)
                       < res.args.max_distance * res.args.max_distance
                  /\ ParallelWithinEpsilon(res.args.kpoint, self.kpt.points[i]) )

\* C13: the quantities entering the fit are unit-converted (energies by the
\* factor from the energy database's unit to hartree, squared distances by
\* (2 pi / alat)^2 with alat converted to bohr), the fit has the one free
\* parameter a, so it succeeds on any non-empty neighbourhood, and the value
\* returned is 1 / (2 a) of these quantities.
C13_FitQuantitiesUnitConverted ==
    ( /\ SelectionMade
      /\ KpointIndices(self, res.args.kpoint, res.args.max_distance) # {} )
    => /\ ~(res.out.kind = "raise" /\ res.out.line = 171)
       /\ res.out.kind = "return" =>
             /\ res.out.value.energy_factor
                  = EnergyConversionFactor(self.bands.units, "hartree")
             /\ RatioEqual(res.out.value.alat,
                           RatioTimes(self.alat,
                                      LengthConversionFactor(self.alat_units, "bohr")))

\* the outcome of a query on analyzer obj
QueryOutcome(obj, op, args) ==
    CASE op = "compute_indirect_bandgap" -> ComputeIndirectBandgap(obj, args[1], args[2])
      [] op = "compute_direct_bandgap" -> ComputeDirectBandgap(obj, args[1], args[2])
      [] op = "compute_effective_mass" ->
            ComputeEffectiveMass(obj, args.n, args.kpoint, args.max_distance,
                                 args.show_plot).out

Queries == {"compute_indirect_bandgap", "compute_direct_bandgap", "compute_effective_mass"}

\* C10: once the analyzer is built, no call to compute_indirect_bandgap,
\* compute_direct_bandgap or compute_effective_mass, returning or raising,
\* changes its k-point database or its energy database or rebinds kpt or
\* bands; so the call just made, made again on the analyzer it leaves behind,
\* has the same outcome.
C10_QueriesLeaveAnalyzerUnchanged ==
    [][ self # NoObject =>
          /\ self'.kpt = self.kpt
          /\ self'.bands = self.bands
          /\ self' = self
          /\ res'.op \in Queries => res'.out = QueryOutcome(self', res'.op, res'.args) ]_vars

\* C10 witness: a compute_effective_mass call got as far as fitting the
\* selected energies of a stored band
C10_Witness ==
    /\ EffectiveMassCallMade
    /\ res.out.kind = "return"
    /\ res.out.value.de # 0

\* ------------------------------------------------------------ test driver
\* run_ephr_calculation and the stage runners of test_driver.py.  The stage
\* directories under work_path hold the input files and exist; `fs` holds the
\* entries the runners create in them, which may be left from an earlier run.
ScfDir == "work_path/pw-ph-wann/scf/"
PhononDir == "work_path/pw-ph-wann/phonon/"
NscfDir == "work_path/pw-ph-wann/nscf/"
WannDir == "work_path/pw-ph-wann/wann/"
Qe2pertDir == "work_path/qe2pert/"
PerturboDir == "work_path/"

PhononTmp == "pw-ph-wann/phonon/tmp"
NscfTmp == "pw-ph-wann/nscf/tmp"
WannTmp == "pw-ph-wann/wann/tmp"
Qe2pertTmp == "qe2pert/tmp"
UMat == "qe2pert/{prefix}_u.mat"
UDisMat == "qe2pert/{prefix}_u_dis.mat"
CentresXyz == "qe2pert/{prefix}_centres.xyz"
WorkEntries == {PhononTmp, NscfTmp, WannTmp, Qe2pertTmp, UMat, UDisMat, CentresXyz}

\* the keys run_ephr_calculation's runners read from input_yaml, and the
\* mappings qe2pert_input.yml may hold: all of them, or all but one
YamlKeys == {"comp_info.scf", "comp_info.phonon", "comp_info.nscf",
             "comp_info.wannier.wannier90", "comp_info.wannier.pw2wannier90",
             "comp_info.qe2pert", "prefix"}
YamlInputs == {YamlKeys} \cup {YamlKeys \ {k} : k \in YamlKeys}

\* what a runner leaves behind: its outcome, the working directory of the
\* process, the entries of the work directory, and the commands it ran, each
\* with the directory it ran in
Stage(out, dir, files, ran) == [out |-> out, getcwd |-> dir, fs |-> files, ran |-> ran]
Sh(command, dir) == [command |-> command, getcwd |-> dir]

\* run_scf(cwd, work_path, input_yaml), called with the process in `at`
RunScf(at, cwd, input_yaml, files) ==
    IF "comp_info.scf" \notin input_yaml
    THEN Stage(Raise("KeyError", 83, "scf"), at, files, <<>>)
    ELSE Stage(Return(<<>>), cwd, files, <<Sh("scf", ScfDir)>>)

\* run_phonon: os.symlink(softlink, 'tmp') raises FileExistsError when the
\* phonon directory already has an entry 'tmp'; nothing catches it and the
\* os.chdir(cwd) of line 147 is not reached
RunPhonon(at, cwd, input_yaml, files) ==
    IF "comp_info.phonon" \notin input_yaml
    THEN Stage(Raise("KeyError", 122, "phonon"), at, files, <<>>)
    ELSE IF PhononTmp \in files
    THEN Stage(Raise("FileExistsError", 131, "tmp"), PhononDir, files, <<>>)
    ELSE Stage(Return(<<>>), cwd, files \cup {PhononTmp},
               <<Sh("phonon", PhononDir), Sh("bash ./ph-collect.sh", PhononDir)>>)

\* run_nscf
RunNscf(at, cwd, input_yaml, files) ==
    IF "comp_info.nscf" \notin input_yaml
    THEN Stage(Raise("KeyError", 174, "nscf"), at, files, <<>>)
    ELSE IF NscfTmp \in files
    THEN Stage(Raise("FileExistsError", 183, "tmp"), NscfDir, files, <<>>)
    ELSE Stage(Return(<<>>), cwd, files \cup {NscfTmp}, <<Sh("nscf", NscfDir)>>)

\* run_wannier: os.mkdir('tmp') at line 226; the pw2wannier90 command is
\* looked up at line 244, after the first wannier90 run
RunWannier(at, cwd, input_yaml, files) ==
    IF "comp_info.wannier.wannier90" \notin input_yaml
    THEN Stage(Raise("KeyError", 220, "wannier90"), at, files, <<>>)
    ELSE IF "prefix" \notin input_yaml
    THEN Stage(Raise("KeyError", 221, "prefix"), at, files, <<>>)
    ELSE IF WannTmp \in files
    THEN Stage(Raise("FileExistsError", 226, "tmp"), WannDir, files, <<>>)
    ELSE IF "comp_info.wannier.pw2wannier90" \notin input_yaml
    THEN Stage(Raise("KeyError", 244, "pw2wannier90"), WannDir, files \cup {WannTmp},
               <<Sh("wannier90 -pp", WannDir)>>)
    ELSE Stage(Return(<<>>), cwd, files \cup {WannTmp},
               <<Sh("wannier90 -pp", WannDir), Sh("pw2wannier90", WannDir),
                 Sh("wannier90", WannDir)>>)

\* run_qe2pert: os.mkdir('tmp') at line 293, then the links of lines 302-321,
\* each raising FileExistsError when its name is taken
RunQe2pert(at, cwd, input_yaml, files) ==
    IF "comp_info.qe2pert" \notin input_yaml
    THEN Stage(Raise("KeyError", 287, "qe2pert"), at, files, <<>>)
    ELSE IF "prefix" \notin input_yaml
    THEN Stage(Raise("KeyError", 288, "prefix"), at, files, <<>>)
    ELSE IF Qe2pertTmp \in files
    THEN Stage(Raise("FileExistsError", 293, "tmp"), Qe2pertDir, files, <<>>)
    ELSE IF UMat \in files
    THEN Stage(Raise("FileExistsError", 310, "_u.mat"), Qe2pertDir,
               files \cup {Qe2pertTmp}, <<>>)
    ELSE IF UDisMat \in files
    THEN Stage(Raise("FileExistsError", 316, "_u_dis.mat"), Qe2pertDir,
               files \cup {Qe2pertTmp, UMat}, <<>>)
    ELSE IF CentresXyz \in files
    THEN Stage(Raise("FileExistsError", 321, "_centres.xyz"), Qe2pertDir,
               files \cup {Qe2pertTmp, UMat, UDisMat}, <<>>)
    ELSE Stage(Return(<<>>), cwd, files \cup {Qe2pertTmp, UMat, UDisMat, CentresXyz},
               <<Sh("qe2pert", Qe2pertDir)>>)

\* run_perturbo(cwd, perturbo_driver_dir_path): subprocess.run is given the
\* argument list of shlex.split (no shell) and raises FileNotFoundError when
\* the program $PERTURBO_RUN names is not installed
RunPerturbo(at, cwd, perturbo_driver_dir_path, installed, files) ==
    IF ~installed
    THEN Stage(Raise("FileNotFoundError", 55, "perturbo_run"),
               perturbo_driver_dir_path, files, <<>>)
    ELSE Stage(Return(<<>>), cwd, files, <<Sh("perturbo", perturbo_driver_dir_path)>>)

\* lines 416-432 of run_ephr_calculation: cwd = os.getcwd(), the work path
\* and input_yaml, before the first stage
EphrStart ==
    /\ drv = NoDriver
    /\ \E input_yaml \in YamlInputs :
         drv' = [op |-> "run_ephr_calculation", pc |-> "run_scf", cwd |-> getcwd,
                 input_yaml |-> input_yaml, out |-> Return(<<>>)]
    /\ UNCHANGED <<getcwd, fs, log>>
    /\ UNCHANGED <<inp, self, res>>

\* a runner called from run_ephr_calculation has ended with r: an exception
\* leaves run_ephr_calculation at once, a return leads to the next call
StageEnds(stage, next, r) ==
    /\ getcwd' = r.getcwd
    /\ fs' = r.fs
    /\ log' = Append(log, [stage |-> stage, out |-> r.out, ran |-> r.ran])
    /\ drv' = IF r.out.kind = "raise"
              THEN [drv EXCEPT !.pc = "raised", !.out = r.out]
              ELSE [drv EXCEPT !.pc = next]
    /\ UNCHANGED <<inp, self, res>>

\* line 435
RunScfCall ==
    /\ drv.op = "run_ephr_calculation"
    /\ drv.pc = "run_scf"
    /\ StageEnds("scf", "run_phonon", RunScf(getcwd, drv.cwd, drv.input_yaml, fs))

\* line 438
RunPhononCall ==
    /\ drv.op = "run_ephr_calculation"
    /\ drv.pc = "run_phonon"
    /\ StageEnds("phonon", "run_nscf", RunPhonon(getcwd, drv.cwd, drv.input_yaml, fs))

\* line 441
RunNscfCall ==
    /\ drv.op = "run_ephr_calculation"
    /\ drv.pc = "run_nscf"
    /\ StageEnds("nscf", "run_wannier", RunNscf(getcwd, drv.cwd, drv.input_yaml, fs))

\* line 444
RunWannierCall ==
    /\ drv.op = "run_ephr_calculation"
    /\ drv.pc = "run_wannier"
    /\ StageEnds("wannier90", "run_qe2pert",
                 RunWannier(getcwd, drv.cwd, drv.input_yaml, fs))

\* lines 447-449: the last stage, then return
RunQe2pertCall ==
    /\ drv.op = "run_ephr_calculation"
    /\ drv.pc = "run_qe2pert"
    /\ StageEnds("qe2pert", "returned", RunQe2pert(getcwd, drv.cwd, drv.input_yaml, fs))

\* run_perturbo(cwd, work_path) as get_test_materials calls it at line 387,
\* with cwd = os.getcwd() of line 359
RunPerturboCall ==
    /\ drv = NoDriver
    /\ \E installed \in BOOLEAN :
         LET r == RunPerturbo(getcwd, getcwd, PerturboDir, installed, fs)
         IN  /\ getcwd' = r.getcwd
             /\ fs' = r.fs
             /\ log' = <<[stage |-> "perturbo", out |-> r.out, ran |-> r.ran]>>
             /\ drv' = [op |-> "run_perturbo",
                        pc |-> IF r.out.kind = "raise" THEN "raised" ELSE "returned",
                        cwd |-> getcwd, input_yaml |-> {}, out |-> r.out]
    /\ UNCHANGED <<inp, self, res>>

\* ------------------------------------------------- driver specification
\* the work directory holds any of the entries an earlier run may have left
InitDriver ==
    /\ getcwd = CallerDir
    /\ fs \in SUBSET WorkEntries
    /\ drv = NoDriver
    /\ log = <<>>
    /\ inp = NoObject
    /\ self = NoObject
    /\ res = NoCall

NextDriver ==
    \/ EphrStart
    \/ RunScfCall
    \/ RunPhononCall
    \/ RunNscfCall
    \/ RunWannierCall
    \/ RunQe2pertCall
    \/ RunPerturboCall

SpecDriver == InitDriver /\ [][NextDriver]_vars

\* the order of the stages and the directory of each
StageOrder == <<"scf", "phonon", "nscf", "wannier90", "qe2pert">>
StageDirectory ==
    [scf |-> ScfDir, phonon |-> PhononDir, nscf |-> NscfDir, wannier90 |-> WannDir,
     qe2pert |-> Qe2pertDir, perturbo |-> PerturboDir]

\* C14: run_ephr_calculation runs scf, phonon, nscf, wannier90, qe2pert in
\* this order, each after the previous one has finished; every stage, and
\* run_perturbo, runs its commands in its own directory and, whether it
\* returns or fails, leaves the working directory of the process equal to the
\* caller's cwd, so that it is the same at the end as at the start.
C14_StagesInOrderCwdRestored ==
    drv # NoDriver =>
        /\ drv.op = "run_ephr_calculation" =>
             /\ Len(log) <= Len(StageOrder)
             /\ \A i \in 1..Len(log) : log[i].stage = StageOrder[i]
             /\ \A i \in 1..(Len(log) - 1) : log[i].out.kind = "return"
        /\ \A i \in 1..Len(log) :
             \A k \in 1..Len(log[i].ran) :
                log[i].ran[k].getcwd = StageDirectory[log[i].stage]
        /\ getcwd = drv.cwd

====
